---- MODULE Spec2Model ----
(***************************************************************************)
(* SwiftLink authentication screens: SignUpScreen.js and SignInScreen.js.  *)
(*                                                                         *)
(* One screen instance is mounted per behaviour (screen).  Its React hook  *)
(* state is the set of variables below.  A press of the submit button runs *)
(* the synchronous part of the async handler (up to its first await); the  *)
(* rest of the handler runs as continuations when the awaited promise      *)
(* settles.  The handler invocations under way are the bag attempts.       *)
(*                                                                         *)
(* Strings the code inspects character by character (email, password) are  *)
(* sequences of one-character strings; server messages, which the code     *)
(* searches for a phrase, are sequences of words.                          *)
(***************************************************************************)
EXTENDS Integers, Sequences, FiniteSets, Bags, TLC

\* ---------------------------------------------------------------- bounds
\* Handler invocations alive at the same time (awaiting the gateway or with
\* their dialog still open).
MaxAttempts == 2
\* Longest password typed.
MaxPwLen == 6

\* ------------------------------------------------------------- constants
\* password.length < 6
MinPasswordLength == 6

\* ------------------------------------------------------------ input sets
Chars(n) == [i \in 1..n |-> "x"]

\* '' or some text, for the fields the code only tests for emptiness.
TextInputs == {"", "v"}

\* Texts typed into the email box: one per way the pattern can fail or match.
EmailInputs ==
  { <<>>,
    <<"a", "@", "b", ".", "c">>,
    <<"a", "b">>,
    <<"a", "@", "b">>,
    <<"a", " ", "@", "b", ".", "c">>,
    <<"a", "@", "b", "@", "c", ".", "d">> }

PasswordInputs == {Chars(n) : n \in {0, MinPasswordLength - 1, MaxPwLen}}

\* <Picker.Item value=...> of the sign-up screen.
SignUpRoles == {"", "carrier", "sender", "receiver"}
\* ['sender', 'carrier', 'agent', 'receiver'].map(...) of the sign-in screen.
SignInRoles == {"sender", "carrier", "agent", "receiver"}

\* ------------------------------------------------------ status messages
Msg(icon, text) == [icon |-> icon, text |-> text]
NoMessage == Msg("", <<>>)

MsgFillAllFieldsUp == Msg("err", <<"Please fill in all fields">>)
MsgFillAllFieldsIn == Msg("err", <<"Please fill all fields">>)
MsgInvalidEmail == Msg("err", <<"Invalid email format">>)
MsgPasswordShort == Msg("err", <<"Password too short">>)
MsgCreating == Msg("busy", <<"Creating your account...">>)
MsgSigningIn == Msg("busy", <<"Signing in...">>)
MsgCreated == Msg("ok", <<"Account created successfully!">>)
MsgLoginOk == Msg("ok", <<"Login successful!">>)
MsgConnection == Msg("err", <<"Connection error">>)
MsgInvalidCredentials == Msg("err", <<"Login failed - Invalid credentials">>)

DefaultErrorText == <<"Registration failed. Please try again.">>
AlreadyRegisteredText ==
  <<"This email is already registered. Please sign in or use a different email.">>
EmailAlreadyRegistered == <<"Email", "already", "registered">>

\* String.prototype.includes
Includes(s, sub) ==
  \E i \in 0..(Len(s) - Len(sub)) : SubSeq(s, i + 1, i + Len(sub)) = sub

\* --------------------------------------------------------------- regex
\* /^[^\s@]+@[^\s@]+\.[^\s@]+$/ as its automaton.  States: 0 start,
\* 1 in the first [^\s@]+, 2 after '@', 3 in the second [^\s@]+,
\* 4 after '\.', 5 in the third [^\s@]+ (accepting).
Whitespace == {" ", "\t", "\n"}
NotSpaceNotAt(ch) == ch \notin Whitespace /\ ch # "@"

RegexStep(q, ch) ==
  CASE q = 0 -> IF NotSpaceNotAt(ch) THEN {1} ELSE {}
    [] q = 1 -> IF NotSpaceNotAt(ch) THEN {1} ELSE IF ch = "@" THEN {2} ELSE {}
    [] q = 2 -> IF NotSpaceNotAt(ch) THEN {3} ELSE {}
    [] q = 3 -> IF ch = "." THEN {3, 4} ELSE IF NotSpaceNotAt(ch) THEN {3} ELSE {}
    [] q = 4 -> IF NotSpaceNotAt(ch) THEN {5} ELSE {}
    [] q = 5 -> IF NotSpaceNotAt(ch) THEN {5} ELSE {}

RECURSIVE RegexRun(_, _, _)
RegexRun(qs, s, i) ==
  IF i > Len(s) THEN qs
  ELSE RegexRun(UNION {RegexStep(q, s[i]) : q \in qs}, s, i + 1)

\* emailRegex.test(email)
emailRegexTest(s) == 5 \in RegexRun({0}, s, 1)

\* ---------------------------------------------------------- validation
\* Variant: the email pattern is not tested.
SignUpValidationNoEmailTest(c) ==
  IF c.fullName = "" \/ c.email = <<>> \/ c.password = <<>>
     \/ c.phone = "" \/ c.nationalID = "" \/ c.role = ""
  THEN MsgFillAllFieldsUp
  ELSE IF Len(c.password) < MinPasswordLength THEN MsgPasswordShort
  ELSE NoMessage

\* The checks of handleSignUp in the order the code makes them; the result
\* is the status message of the first failing check, NoMessage when all pass.
SignUpValidation(c) ==
  IF c.fullName = "" \/ c.email = <<>> \/ c.password = <<>>
     \/ c.phone = "" \/ c.nationalID = "" \/ c.role = ""
  THEN MsgFillAllFieldsUp
  ELSE IF ~emailRegexTest(c.email) THEN MsgInvalidEmail
  ELSE IF Len(c.password) < MinPasswordLength THEN MsgPasswordShort
  ELSE NoMessage

\* The checks of handleSignIn.
SignInValidation(c) ==
  IF c.email = <<>> \/ c.password = <<>> THEN MsgFillAllFieldsIn
  ELSE IF ~emailRegexTest(c.email) THEN MsgInvalidEmail
  ELSE NoMessage

\* ----------------------------------------------------------------- state
VARIABLES
  screen,        \* which screen this instance is: "SignUp" or "SignIn"
  fullName, email, password, phone, nationalID, role,   \* useState fields
  loading,       \* useState(false)
  statusMessage, \* statusMessage (sign-up) / message (sign-in)
  disabledProp,  \* disabled={loading} of the committed render
  attempts,      \* bag of the handler invocations that have not finished
  nav            \* the route navigated to; NoNav while this screen is in front

vars == <<screen, fullName, email, password, phone, nationalID, role, loading,
          statusMessage, disabledProp, attempts, nav>>

fields == <<fullName, email, password, phone, nationalID, role>>

NoNav == [route |-> "", params |-> {}]
NoData == [isNull |-> TRUE, token |-> "", user |-> [id |-> ""]]

\* What the handler's closure sees: the state of the render it belongs to.
Closure ==
  [fullName |-> fullName, email |-> email, password |-> password,
   phone |-> phone, nationalID |-> nationalID, role |-> role]

\* The distinct invocations under way, and the bag with one more or one
\* less of them.
Attempts == BagToSet(attempts)
With(bag, a) == bag (+) SetToBag({a})
Without(bag, a) == bag (-) SetToBag({a})

\* An Alert.alert dialog is on screen: it is modal.
AlertShowing == \E a \in Attempts : a.pc = "alert"

\* Calls of the gateway that have not settled, and how many there are.
InFlight == {a \in Attempts : a.pc \in {"fetch", "json", "login"}}
InFlightCount == BagCardinality([a \in InFlight |-> attempts[a]])

Init ==
  /\ screen \in {"SignUp", "SignIn"}
  /\ fullName = "" /\ email = <<>> /\ password = <<>>
  /\ phone = "" /\ nationalID = ""
  /\ role = IF screen = "SignUp" THEN "" ELSE "sender"
  /\ loading = FALSE
  /\ statusMessage = NoMessage
  /\ disabledProp = FALSE
  /\ attempts = EmptyBag
  /\ nav = NoNav

\* ------------------------------------------------------------ user input
\* onChangeText / onValueChange / onPress of a role button: the setter,
\* followed by the render React commits for it.  The commit also delivers
\* the current loading to the button's disabled prop.  (A handler that ran
\* between the setter and its commit would have seen the old field values,
\* which is the same behaviour as the handler running before the edit.)
Focused == nav = NoNav
Editable == Focused /\ ~AlertShowing

setFullName(t) ==
  /\ screen = "SignUp" /\ Editable
  /\ fullName' = t
  /\ disabledProp' = loading
  /\ UNCHANGED <<screen, email, password, phone, nationalID, role, loading,
                 statusMessage, attempts, nav>>

setEmail(t) ==
  /\ Editable
  /\ email' = t
  /\ disabledProp' = loading
  /\ UNCHANGED <<screen, fullName, password, phone, nationalID, role, loading,
                 statusMessage, attempts, nav>>

setPassword(t) ==
  /\ Editable
  /\ password' = t
  /\ disabledProp' = loading
  /\ UNCHANGED <<screen, fullName, email, phone, nationalID, role, loading,
                 statusMessage, attempts, nav>>

setPhone(t) ==
  /\ screen = "SignUp" /\ Editable
  /\ phone' = t
  /\ disabledProp' = loading
  /\ UNCHANGED <<screen, fullName, email, password, nationalID, role, loading,
                 statusMessage, attempts, nav>>

setNationalID(t) ==
  /\ screen = "SignUp" /\ Editable
  /\ nationalID' = t
  /\ disabledProp' = loading
  /\ UNCHANGED <<screen, fullName, email, password, phone, role, loading,
                 statusMessage, attempts, nav>>

setRole(r) ==
  /\ Editable
  /\ r \in (IF screen = "SignUp" THEN SignUpRoles ELSE SignInRoles)
  /\ role' = r
  /\ disabledProp' = loading
  /\ UNCHANGED <<screen, fullName, email, password, phone, nationalID, loading,
                 statusMessage, attempts, nav>>

\* React commits a render: the button gets disabled={loading}.
Render ==
  /\ disabledProp # loading
  /\ disabledProp' = loading
  /\ UNCHANGED <<screen, fields, loading, statusMessage, attempts, nav>>

\* The footer link: navigation.navigate('SignIn') on the sign-up screen,
\* navigation.navigate('SignUp') on the sign-in screen.
footerLink ==
  /\ Focused /\ ~AlertShowing
  /\ nav' = [route |-> IF screen = "SignUp" THEN "SignIn" ELSE "SignUp",
             params |-> {}]
  /\ UNCHANGED <<screen, fields, loading, statusMessage, disabledProp,
                 attempts>>

\* ------------------------------------------------------- submit handlers
\* A new handler invocation with closure c.  Of the closure it keeps what
\* the code after the await still reads: role in handleSignIn, nothing in
\* handleSignUp.  calls counts the gateway calls the invocation has made,
\* result is what its gateway call did ("pending" until it settles, "none"
\* when none was made), outcome the branch the handler ended in.
NewAttempt(c, pc, outcome, calls) ==
  [role |-> IF screen = "SignIn" THEN c.role ELSE "",
   pc |-> pc, outcome |-> outcome, calls |-> calls,
   result |-> IF calls = 0 THEN "none" ELSE "pending", data |-> NoData]

\* The button accepts a press: it is rendered enabled and no dialog covers it.
Pressable ==
  /\ Focused /\ ~AlertShowing
  /\ ~disabledProp
  /\ BagCardinality(attempts) < MaxAttempts

\* Variant: setLoading(true) and the in-progress message come before the
\* validation, whose early returns leave loading set.
handleSignUpLoadingFirst ==
  /\ screen = "SignUp" /\ Pressable
  /\ loading' = TRUE
  /\ LET c == Closure
         v == SignUpValidation(c)
     IN IF v # NoMessage
        THEN /\ statusMessage' = v
             /\ attempts' = With(attempts, NewAttempt(c, "alert", "validation", 0))
        ELSE /\ statusMessage' = MsgCreating
             /\ attempts' = With(attempts, NewAttempt(c, "fetch", "none", 1))
  /\ UNCHANGED <<screen, fields, disabledProp, nav>>

\* handleSignUp up to its first await: validation, then setLoading(true),
\* the in-progress message and the fetch of the register endpoint.
handleSignUp ==
  /\ screen = "SignUp" /\ Pressable
  /\ LET c == Closure
         v == SignUpValidation(c)
     IN IF v # NoMessage
        THEN /\ statusMessage' = v
             /\ attempts' = With(attempts, NewAttempt(c, "alert", "validation", 0))
             /\ UNCHANGED loading
        ELSE /\ loading' = TRUE
             /\ statusMessage' = MsgCreating
             /\ attempts' = With(attempts, NewAttempt(c, "fetch", "none", 1))
  /\ UNCHANGED <<screen, fields, disabledProp, nav>>

\* handleSignIn up to its await of login(email, password, role).
handleSignIn ==
  /\ screen = "SignIn" /\ Pressable
  /\ LET c == Closure
         v == SignInValidation(c)
     IN IF v # NoMessage
        THEN /\ statusMessage' = v
             /\ attempts' = With(attempts, NewAttempt(c, "alert", "validation", 0))
             /\ UNCHANGED loading
        ELSE /\ loading' = TRUE
             /\ statusMessage' = MsgSigningIn
             /\ attempts' = With(attempts, NewAttempt(c, "login", "none", 1))
  /\ UNCHANGED <<screen, fields, disabledProp, nav>>

\* ------------------------------------------------------- gateway answers
\* JSON bodies the register endpoint may answer with, as far as the handler
\* looks at them: the value null, or an object whose message is absent, a
\* string (a sequence of words, possibly empty) or a number.
ServerMessages ==
  { <<>>,
    EmailAlreadyRegistered,
    <<"Error:", "Email", "already", "registered">>,
    <<"Server", "error">> }

JsonBodies ==
  {[isNull |-> n, msgType |-> "absent", message |-> <<>>] : n \in BOOLEAN}
    \cup {[isNull |-> FALSE, msgType |-> "string", message |-> m] : m \in ServerMessages}
    \cup {[isNull |-> FALSE, msgType |-> "number", message |-> <<>>]}

\* What login(email, password, role) of the AuthContext resolves to:
\* null, or {token, user}.
LoginResults ==
  {NoData} \cup
  {[isNull |-> FALSE, token |-> "t1", user |-> [id |-> "u1"]],
   [isNull |-> FALSE, token |-> "t2", user |-> [id |-> "u2"]]}

\* -------------------------------------------------------- continuations
\* Variant: no finally block, loading is left as it is.
FinishWithoutFinally(a, b, msg, outcome) ==
  /\ statusMessage' = msg
  /\ attempts' = With(Without(attempts, a),
       [b EXCEPT !.pc = "alert", !.outcome = outcome,
                 !.role = IF outcome = "success" THEN @ ELSE ""])
  /\ UNCHANGED <<screen, fields, loading, disabledProp, nav>>

\* What is left of an invocation once its handler has returned: its dialog.
\* Only the success dialog has an onPress that still holds the closure.
Dialog(b, outcome) ==
  [b EXCEPT !.pc = "alert", !.outcome = outcome,
            !.role = IF outcome = "success" THEN @ ELSE ""]

\* The rest of the handler for invocation a, which b describes now that its
\* promise has settled: setStatusMessage(msg), the Alert.alert of the path
\* taken, and the finally block, setLoading(false).  The handler's work is
\* over; its dialog stays until the user presses its button.
Finish(a, b, msg, outcome) ==
  /\ statusMessage' = msg
  /\ loading' = FALSE
  /\ attempts' = With(Without(attempts, a), Dialog(b, outcome))
  /\ UNCHANGED <<screen, fields, disabledProp, nav>>

\* Variant: the catch block sets no status message.
CatchSilent(a, b) == Finish(a, b, statusMessage, "network")

\* Variant: the catch block issues the call once more before giving up.
CatchRetry(a, b) ==
  IF a.calls < 2
  THEN /\ attempts' = With(Without(attempts, a),
            [a EXCEPT !.pc = IF screen = "SignUp" THEN "fetch" ELSE "login",
                      !.calls = @ + 1])
       /\ UNCHANGED <<screen, fields, loading, statusMessage, disabledProp, nav>>
  ELSE Finish(a, b, MsgConnection, "network")

\* catch (error) of either handler, then finally.
Catch(a, b) == Finish(a, b, MsgConnection, "network")

\* fetch(...) resolved with a response whose ok flag is ok: the handler goes
\* on to await response.json().
fetchResolve(a, ok) ==
  /\ a.pc = "fetch"
  /\ attempts' = With(Without(attempts, a),
       [a EXCEPT !.pc = "json", !.result = IF ok THEN "2xx" ELSE "non2xx"])
  /\ UNCHANGED <<screen, fields, loading, statusMessage, disabledProp, nav>>

\* fetch(...) rejected: a transport failure.
fetchReject(a) ==
  /\ a.pc = "fetch"
  /\ Catch(a, [a EXCEPT !.result = "threw"])

\* The text of the failure alert and status message for a parsed error body.
errorMessage(data) ==
  IF data.msgType = "string" /\ data.message # <<>>
  THEN IF Includes(data.message, EmailAlreadyRegistered)
       THEN AlreadyRegisteredText
       ELSE data.message
  ELSE DefaultErrorText

\* Reading the body raises a TypeError: data.message of null, or
\* data.message.includes of a truthy message that is not a string.
ThrowsOnError(data) == data.isNull \/ data.msgType = "number"

\* response.json() resolved with data: the if (response.ok) ... else ...
jsonResolve(a, data) ==
  /\ a.pc = "json"
  /\ IF a.result = "2xx"
     THEN Finish(a, a, MsgCreated, "success")
     ELSE IF ThrowsOnError(data)
          THEN Catch(a, a)
          ELSE Finish(a, a, Msg("err", errorMessage(data)), "server")

\* response.json() rejected: the body is not JSON.
jsonReject(a) ==
  /\ a.pc = "json"
  /\ Catch(a, a)

\* Variant: the branch for a null result sets no status message.
loginReturnSilentNull(a, data) ==
  /\ a.pc = "login"
  /\ LET b == [a EXCEPT !.result = "returned", !.data = data]
     IN IF data.isNull
        THEN Finish(a, b, statusMessage, "credentials")
        ELSE Finish(a, b, MsgLoginOk, "success")

\* login(...) resolved with data.
loginReturn(a, data) ==
  /\ a.pc = "login"
  /\ LET b == [a EXCEPT !.result = "returned", !.data = data]
     IN IF data.isNull
        THEN Finish(a, b, MsgInvalidCredentials, "credentials")
        ELSE Finish(a, b, MsgLoginOk, "success")

\* login(...) threw.
loginThrow(a) ==
  /\ a.pc = "login"
  /\ Catch(a, [a EXCEPT !.result = "threw"])

\* ------------------------------------------------------- alert buttons
\* Variant: the route is chosen from the role selected when the dialog is
\* closed.
SignInTargetCurrentRole(r, data) ==
  IF role = "agent"
  THEN [route |-> "AgentChat",
        params |-> {<<"agentId", data.user.id>>, <<"token", data.token>>}]
  ELSE [route |-> "Dashboard", params |-> {<<"role", role>>}]

\* onPress of 'Continue': the route chosen from the role and the login
\* result the handler's closure holds.
SignInTarget(r, data) ==
  IF r = "agent"
  THEN [route |-> "AgentChat",
        params |-> {<<"agentId", data.user.id>>, <<"token", data.token>>}]
  ELSE [route |-> "Dashboard", params |-> {<<"role", r>>}]

\* Variant: every dialog's button runs the onPress of the success dialog.
alertPressAnyOutcome(a) ==
  /\ a.pc = "alert"
  /\ attempts' = Without(attempts, a)
  /\ IF screen = "SignUp"
     THEN /\ fullName' = "" /\ email' = <<>> /\ password' = <<>>
          /\ phone' = "" /\ nationalID' = "" /\ role' = ""
          /\ nav' = [route |-> "SignIn", params |-> {}]
          /\ disabledProp' = loading
     ELSE /\ nav' = SignInTarget(a.role, a.data)
          /\ UNCHANGED <<fields, disabledProp>>
  /\ UNCHANGED <<screen, loading, statusMessage>>

\* The user presses the button of a's dialog.  The success dialogs run their
\* onPress; the others only close.
alertPress(a) ==
  /\ a.pc = "alert"
  /\ attempts' = Without(attempts, a)
  /\ IF a.outcome = "success" /\ screen = "SignUp"
     THEN /\ fullName' = "" /\ email' = <<>> /\ password' = <<>>
          /\ phone' = "" /\ nationalID' = "" /\ role' = ""
          /\ nav' = [route |-> "SignIn", params |-> {}]
          /\ disabledProp' = loading
     ELSE IF a.outcome = "success" /\ screen = "SignIn"
     THEN /\ nav' = SignInTarget(a.role, a.data)
          /\ UNCHANGED <<fields, disabledProp>>
     ELSE UNCHANGED <<fields, disabledProp, nav>>
  /\ UNCHANGED <<screen, loading, statusMessage>>

\* The user comes back to this screen (it stays mounted under the route
\* navigated to).
goBack ==
  /\ ~Focused /\ ~AlertShowing
  /\ nav' = NoNav
  /\ UNCHANGED <<screen, fields, loading, statusMessage, disabledProp, attempts>>

\* --------------------------------------------------------- specification
Edit ==
  \/ \E t \in TextInputs : setFullName(t)
  \/ \E t \in EmailInputs : setEmail(t)
  \/ \E t \in PasswordInputs : setPassword(t)
  \/ \E t \in TextInputs : setPhone(t)
  \/ \E t \in TextInputs : setNationalID(t)
  \/ \E r \in SignUpRoles \cup SignInRoles : setRole(r)

\* The promise attempt a awaits settles.
Settle(a) ==
  \/ \E ok \in BOOLEAN : fetchResolve(a, ok)
  \/ fetchReject(a)
  \/ \E data \in JsonBodies : jsonResolve(a, data)
  \/ jsonReject(a)
  \/ \E data \in LoginResults : loginReturn(a, data)
  \/ loginThrow(a)

SettleSome == \E a \in Attempts : Settle(a)
AlertPressSome == \E a \in Attempts : alertPress(a)

Next ==
  \/ Edit
  \/ handleSignUp
  \/ handleSignIn
  \/ SettleSome
  \/ AlertPressSome
  \/ Render
  \/ footerLink
  \/ goBack

Spec == Init /\ [][Next]_vars

\* Every gateway call eventually returns or throws, every continuation the
\* event loop holds is run, and React commits every state update.
Fairness ==
  /\ WF_vars(SettleSome)
  /\ WF_vars(Render)

\* The specification for progress.  Edits touch neither loading nor the
\* attempts, so instead of interleaving them the form starts with any field
\* values the user may have typed.
LiveInit ==
  /\ screen \in {"SignUp", "SignIn"}
  /\ email \in EmailInputs /\ password \in PasswordInputs
  /\ IF screen = "SignUp"
     THEN /\ fullName \in TextInputs /\ phone \in TextInputs
          /\ nationalID \in TextInputs /\ role \in SignUpRoles
     ELSE /\ fullName = "" /\ phone = "" /\ nationalID = ""
          /\ role \in SignInRoles
  /\ loading = FALSE
  /\ statusMessage = NoMessage
  /\ disabledProp = FALSE
  /\ attempts = EmptyBag
  /\ nav = NoNav

LiveNext ==
  \/ handleSignUp
  \/ handleSignIn
  \/ SettleSome
  \/ AlertPressSome
  \/ Render
  \/ goBack

LiveSpec == LiveInit /\ [][LiveNext]_vars /\ Fairness

\* ================================================================ claims
\* Attempts that enter the set in a step: a press starts one, a settled
\* promise moves one on.
More == {a \in BagToSet(attempts') : CopiesIn(a, attempts') > CopiesIn(a, attempts)}
Fewer == {a \in Attempts : CopiesIn(a, attempts') < CopiesIn(a, attempts)}

\* The invocation a press of the submit button creates in a step, and of
\* those the ones that call the gateway.
Pressed == IF BagCardinality(attempts') > BagCardinality(attempts) THEN More ELSE {}
Started == {a \in Pressed : a.pc \in {"fetch", "login"}}
\* The invocation whose handler finishes in a step, and the one whose dialog
\* the user closes in a step.
Finished ==
  IF BagCardinality(attempts') = BagCardinality(attempts)
  THEN {a \in More : a.pc = "alert"}
  ELSE {}
Closed == IF BagCardinality(attempts') < BagCardinality(attempts) THEN Fewer ELSE {}

\* The shape x@y.z: no whitespace, exactly one '@' that is not the first
\* character, and after it a '.' with text on both sides.
EmailShape(s) ==
  /\ \A i \in 1..Len(s) : s[i] \notin Whitespace
  /\ Cardinality({i \in 1..Len(s) : s[i] = "@"}) = 1
  /\ \E i \in 2..Len(s) :
       /\ s[i] = "@"
       /\ \E j \in (i + 2)..(Len(s) - 1) : s[j] = "."

RequiredFilled ==
  IF screen = "SignUp"
  THEN /\ fullName # "" /\ email # <<>> /\ password # <<>>
       /\ phone # "" /\ nationalID # "" /\ role # ""
  ELSE email # <<>> /\ password # <<>>

PasswordLongEnough == screen = "SignUp" => Len(password) >= 6

LocallyValid == RequiredFilled /\ EmailShape(email) /\ PasswordLongEnough

\* C1: a step that invokes the gateway (the registration POST, the login()
\* call) is a submit whose field values pass every local validation: the
\* required fields are non-empty, the email has the shape x@y.z and, on
\* sign-up, the password has at least 6 characters.
C1_GatewayOnlyWhenValid == [][Started # {} => LocallyValid]_vars

C1_Witness ==
  /\ screen = "SignUp"
  /\ \E a \in Attempts : a.pc = "fetch" /\ a.calls = 1
  /\ LocallyValid

\* C2: the loading flag is true while a gateway call of the screen is in
\* flight, and false once no attempt is under way.
C2_LoadingTracksGateway ==
  /\ InFlight # {} => loading = TRUE
  /\ InFlight = {} => loading = FALSE

\* C3: there are never two gateway calls of the screen in flight at the
\* same time.
C3_OneCallInFlight == InFlightCount <= 1

\* C4: on the sign-in screen the role passed to login() is the role selected
\* when the button was pressed, and when login() returned a result and the
\* user presses 'Continue', that role decides the route, whatever role is
\* selected by then: 'agent' goes to AgentChat with agentId = result.user.id
\* and token = result.token, any other role to Dashboard with {role} only.
C4_RouteByRole(a) ==
  IF a.role = "agent"
  THEN [route |-> "AgentChat",
        params |-> {<<"agentId", a.data.user.id>>, <<"token", a.data.token>>}]
  ELSE [route |-> "Dashboard", params |-> {<<"role", a.role>>}]

C4_NavigationBySubmittedRole ==
  [][screen = "SignIn" =>
       /\ \A a \in Started : a.role = role
       /\ \A a \in Closed :
            (a.result = "returned" /\ ~a.data.isNull) => nav' = C4_RouteByRole(a)]_vars

C4_Witness ==
  /\ screen = "SignIn"
  /\ nav.route = "AgentChat"
  /\ nav.params = {<<"agentId", "u2">>, <<"token", "t2">>}
  /\ role # "agent"

\* C5: on the sign-up screen every attempt answered with an HTTP 2xx
\* response ends in Succeeded.
C5_Every2xxSucceeds ==
  \A a \in Attempts :
    (screen = "SignUp" /\ a.pc = "alert" /\ a.result = "2xx") => a.outcome = "success"

\* C6: on the sign-up screen every attempt answered with an HTTP non-2xx
\* response ends in Failed with a server error, not a network error.
C6_EveryNon2xxIsServerError ==
  \A a \in Attempts :
    (screen = "SignUp" /\ a.pc = "alert" /\ a.result = "non2xx") => a.outcome = "server"

\* C7: when the gateway call throws, the attempt ends with the status
\* message 'Connection error' and loading false, and neither that step nor
\* closing its dialog navigates; a null login result ends the attempt with
\* 'Login failed - Invalid credentials', a different text.
C7_ConnectionText == [icon |-> "err", text |-> <<"Connection error">>]
C7_CredentialsText == [icon |-> "err", text |-> <<"Login failed - Invalid credentials">>]

C7_ThrowIsConnectionError ==
  [][/\ \A a \in Finished :
          /\ a.result = "threw" =>
               /\ statusMessage' = C7_ConnectionText
               /\ loading' = FALSE
               /\ nav' = nav
          /\ (a.result = "returned" /\ a.data.isNull) =>
               /\ statusMessage' = C7_CredentialsText
               /\ statusMessage' # C7_ConnectionText
     /\ \A a \in Closed : a.result = "threw" => nav' = nav]_vars

C7_Witness ==
  /\ \E a \in Attempts : a.pc = "alert" /\ a.result = "threw"
  /\ statusMessage = C7_ConnectionText
  /\ loading = FALSE

\* C8: every gateway call in flight is eventually over and, whenever loading
\* is true, eventually loading is false and the submit button enabled again.
C8_EveryAttemptEnds ==
  (loading = TRUE \/ InFlight # {}) ~> (loading = FALSE /\ disabledProp = FALSE)

C8_Witness ==
  /\ loading = FALSE /\ disabledProp = FALSE
  /\ \E a \in Attempts : a.pc = "alert" /\ a.result = "returned" /\ a.data.isNull

\* C9: a submit whose fields fail validation ends at once: no gateway call,
\* the status message of the first failing check (missing fields, invalid
\* email, password shorter than 6 on sign-up), loading false before and
\* after, and the form fields unchanged.
C9_ExpectedError ==
  IF ~RequiredFilled
  THEN [icon |-> "err",
        text |-> IF screen = "SignUp" THEN <<"Please fill in all fields">>
                 ELSE <<"Please fill all fields">>]
  ELSE IF ~EmailShape(email)
  THEN [icon |-> "err", text |-> <<"Invalid email format">>]
  ELSE [icon |-> "err", text |-> <<"Password too short">>]

C9_InvalidSubmitFailsAtOnce ==
  [][\A a \in Pressed :
       ~LocallyValid =>
         /\ a.pc = "alert" /\ a.outcome = "validation" /\ a.calls = 0
         /\ statusMessage' = C9_ExpectedError
         /\ loading = FALSE /\ loading' = FALSE
         /\ fields' = fields]_vars

C9_Witness ==
  /\ screen = "SignUp"
  /\ \E a \in Attempts : a.pc = "alert" /\ a.outcome = "validation"
  /\ statusMessage = [icon |-> "err", text |-> <<"Password too short">>]
  /\ Len(password) = 5

\* C10: a submit makes exactly one gateway call when validation passes and
\* none when it fails, and no later step of the attempt makes another.
C10_OneCallPerSubmit ==
  /\ [](\A a \in Attempts : a.calls <= 1)
  /\ [][/\ \A a \in Pressed : a.calls = IF LocallyValid THEN 1 ELSE 0
        /\ Pressed = {} => \A b \in More : \E a \in Fewer : b.calls = a.calls]_vars

C10_Witness ==
  \E a \in Attempts : a.pc = "alert" /\ a.result = "threw" /\ a.calls = 1

\* The gateway answered invocation a with success: a 2xx response whose
\* body was read, or a login result that is not null.
GatewaySucceeded(a) ==
  /\ a.outcome = "success"
  /\ a.calls = 1
  /\ IF screen = "SignUp" THEN a.result = "2xx"
     ELSE a.result = "returned" /\ ~a.data.isNull

\* C11: the submit handlers cause a navigation or clear the form only in
\* the step in which the user presses the button of the success dialog of
\* an invocation whose gateway call succeeded.  A step of a handler or of
\* a dialog (a press of the submit button, a settled promise, a closed
\* dialog) that is not such a press leaves the route and the fields as
\* they are, whatever the invocation ended in; and the routes Dashboard and
\* AgentChat are entered by no other step at all.
C11_NavigationOnlyAfterSuccessAndAck ==
  [][ /\ (attempts' # attempts /\ (nav' # nav \/ fields' # fields))
           => \E a \in Closed : a.pc = "alert" /\ GatewaySucceeded(a)
      /\ (nav' # nav /\ nav'.route \in {"Dashboard", "AgentChat"})
           => \E a \in Closed : a.pc = "alert" /\ GatewaySucceeded(a)
      /\ \A a \in Closed : ~GatewaySucceeded(a)
           => nav' = nav /\ fields' = fields ]_vars

\* The success dialog of a sign-up was acknowledged: the form is cleared
\* and the route is SignIn, while the message still tells of the success.
C11_Witness ==
  /\ screen = "SignUp"
  /\ statusMessage = MsgCreated
  /\ nav.route = "SignIn"
  /\ fullName = "" /\ email = <<>> /\ password = <<>>
  /\ attempts = EmptyBag

\* The in-progress indicators, and the messages a handler leaves when it
\* ends in the given outcome.
InProgressMessages == {MsgCreating, MsgSigningIn}
OutcomeMessages(outcome) ==
  CASE outcome = "validation" ->
         IF screen = "SignUp"
         THEN {MsgFillAllFieldsUp, MsgInvalidEmail, MsgPasswordShort}
         ELSE {MsgFillAllFieldsIn, MsgInvalidEmail}
    [] outcome = "success" ->
         IF screen = "SignUp" THEN {MsgCreated} ELSE {MsgLoginOk}
    [] outcome = "server" ->
         {Msg("err", t) : t \in (ServerMessages \ {<<>>})
                                 \cup {DefaultErrorText, AlreadyRegisteredText}}
    [] outcome = "credentials" -> {MsgInvalidCredentials}
    [] outcome = "network" -> {MsgConnection}
    [] OTHER -> {}
FinalMessages ==
  UNION {OutcomeMessages(o) :
           o \in {"validation", "success", "server", "credentials", "network"}}

\* C12: whenever loading is false and no handler is waiting on its gateway
\* call, the status message is not an in-progress indicator: it is empty or
\* one of the success and failure messages.  It is the message of the
\* invocation that completed last: the step in which a handler ends sets
\* the message of the outcome it ended in, and a message once set is never
\* emptied again, so an empty message means no attempt was made yet.
C12_IdleMessageIsFinal ==
  /\ [](loading = FALSE /\ InFlight = {}
          => /\ statusMessage \notin InProgressMessages
             /\ statusMessage \in {NoMessage} \cup FinalMessages)
  /\ [][ /\ \A a \in Finished \cup {b \in Pressed : b.pc = "alert"} :
              statusMessage' \in OutcomeMessages(a.outcome)
         /\ statusMessage # NoMessage => statusMessage' # NoMessage ]_vars

\* A sign-in whose login() returned null has completed and its dialog is
\* closed: the screen is idle and shows the failure message.
C12_Witness ==
  /\ screen = "SignIn"
  /\ loading = FALSE /\ attempts = EmptyBag
  /\ statusMessage = MsgInvalidCredentials
====
